---- MODULE Spec2Model ----
(***************************************************************************)
(* Cubey (src/src/Cubey.cpp): a GLFW/OpenGL viewer that draws a rotating   *)
(* cube and a text overlay showing the rotation angles.                    *)
(*                                                                         *)
(* Units.  Angles and speeds are C floats in the program.  Here they are   *)
(* integers counting HALF DEGREES (2.0f is 4, 360.0f is 720).  Every value *)
(* the model uses is a multiple of 0.5 below 2^23, which float represents  *)
(* exactly, and so are all their sums: float arithmetic on them is exact.  *)
(* Screen positions are integers counting QUARTER PIXELS (25.0f is 100).   *)
(* A char is an integer in -128..255 (signed or unsigned char).            *)
(***************************************************************************)
EXTENDS Integers, Sequences, FiniteSets, TLC

(* ---------------- program constants ---------------- *)
KeyStep == 4                \* 2.0f degrees per key per frame
WrapLimit == 720            \* 360.0f degrees
FirstChar == 32             \* first baked code point
NumChars == 96              \* number of baked glyphs
AtlasSize == 512            \* font atlas width and height in texels
WIN_WIDTH == 900
WIN_HEIGHT == 700
TextX == 100                \* 25.0f pixels
TextY == 200                \* 50.0f pixels

(* ---------------- bounds of the model ---------------- *)
MaxFrames == 2              \* iterations of the render loop in Spec
MaxLen == 3                 \* longest string handed to renderText in SpecText
NumFonts == 2               \* font files the model distinguishes

Keys == {"ESCAPE", "UP", "DOWN", "LEFT", "RIGHT"}

\* speeds (half degrees per frame) the startup draw can give: 1.0/1.5,
\* 1.0/2.0 and 2.0/1.0 degrees per frame
SpeedDraws == { <<2, 3>>, <<2, 4>>, <<4, 2>> }
\* the draws SpecRot follows over unboundedly many frames
RotSpeedDraws == { <<2, 4>>, <<4, 2>> }

\* framebuffer sizes the platform can report
FbSizes == { <<WIN_WIDTH, WIN_HEIGHT>>, <<450, 350>> }

\* chars SpecText builds strings from: both sides of each end of the baked
\* range, a control char, and a byte >= 128 as unsigned (200) and signed (-56)
TextChars == {10, 31, 32, 65, 127, 128, 200, -56}
PenStarts == { <<TextX, TextY>>, <<3, 0>> }

Handles == <<"VAO", "VBO", "EBO", "cubeShaderProgram", "textShaderProgram",
             "fontTexture", "textVAO", "textVBO">>

VARIABLES
    pc,                 \* position of main (or of the renderText call)
    exitCode,           \* exit status of the process, once pc = "exited"
    shouldClose,        \* the window's close flag
    keys,               \* keys glfwGetKey reported to processInput
    rotationX, rotationY,
    rotationXSpeed, rotationYSpeed,
    preX, preY,         \* rotationX/rotationY after line 344, before the wrap
    frames,             \* iterations of the render loop started so far
    idle,               \* no arrow key was ever reported pressed
    depthTest, blend,   \* GL_DEPTH_TEST, GL_BLEND
    current,            \* program of the latest glUseProgram call
    cubeShaderProgram, textShaderProgram,   \* "none", "linked", "unlinked"
    created, destroyed, \* handles in the order they were generated/deleted
    fontFace,           \* font baked into charData (0: none)
    fbSize, viewport, ortho,
    txt,                \* string handed to renderText
    argX, argY,         \* renderText's x, y on entry
    penX, penY,         \* renderText's x, y
    quads,              \* quads drawn by the latest renderText call
    trace,              \* steps of the current loop iteration, in order
    cubeDraw, textDraw  \* GL state seen by the latest cube / text draw

vars == <<pc, exitCode, shouldClose, keys, rotationX, rotationY,
          rotationXSpeed, rotationYSpeed, preX, preY, frames, idle,
          depthTest, blend, current, cubeShaderProgram, textShaderProgram,
          created, destroyed, fontFace, fbSize, viewport, ortho,
          txt, argX, argY, penX, penY, quads, trace, cubeDraw, textDraw>>

rotVars == <<rotationX, rotationY, preX, preY>>
speedVars == <<rotationXSpeed, rotationYSpeed>>
glVars == <<depthTest, blend, current, viewport, ortho>>
progVars == <<cubeShaderProgram, textShaderProgram>>
resVars == <<created, destroyed, fontFace>>
textVars == <<txt, argX, argY, penX, penY, quads>>
drawVars == <<cubeDraw, textDraw>>

NoDraw == [program |-> "none", depth |-> FALSE, blend |-> FALSE, n |-> 0]

(* ---------------- processInput and the wrap ---------------- *)

\* mutant of KeyAdjustX: the two keys are swapped
KeyAdjustX_Swapped(k, rx) ==
    LET a == IF "UP" \in k THEN rx + KeyStep ELSE rx
    IN  IF "DOWN" \in k THEN a - KeyStep ELSE a

\* lines 35-38: UP subtracts 2.0f, DOWN adds 2.0f
KeyAdjustX(k, rx) ==
    LET a == IF "UP" \in k THEN rx - KeyStep ELSE rx
    IN  IF "DOWN" \in k THEN a + KeyStep ELSE a

\* lines 39-42: LEFT subtracts 2.0f, RIGHT adds 2.0f
KeyAdjustY(k, ry) ==
    LET a == IF "LEFT" \in k THEN ry - KeyStep ELSE ry
    IN  IF "RIGHT" \in k THEN a + KeyStep ELSE a

\* mutant of WrapAngle: the upper test is missing
WrapAngle_LowerOnly(a) == IF a < -WrapLimit THEN 0 ELSE a

\* mutant of WrapAngle: a smooth wrap, the angle reduced modulo 360
WrapAngle_Modulo(a) ==
    IF a > WrapLimit THEN a - WrapLimit
    ELSE IF a < -WrapLimit THEN a + WrapLimit ELSE a

\* lines 345/346: reset to 0.0f beyond +-360.0f
WrapAngle(a) == IF a > WrapLimit \/ a < -WrapLimit THEN 0 ELSE a

(* ---------------- status string (line 384) ---------------- *)

\* "Arrow keys control the rotation (" as chars
StatusPrefix ==
    <<65, 114, 114, 111, 119, 32, 107, 101, 121, 115, 32, 99, 111, 110, 116,
      114, 111, 108, 32, 116, 104, 101, 32, 114, 111, 116, 97, 116, 105, 111,
      110, 32, 40>>

RECURSIVE Digits(_)
\* the decimal digits of n >= 0, as chars
Digits(n) ==
    IF n < 10 THEN <<48 + n>> ELSE Digits(n \div 10) \o <<48 + (n % 10)>>

\* std::format("{:.1f}", a) for an angle a of the model (a multiple of 0.5):
\* sign, integer part, '.', one decimal (0 or 5)
FormatAngle(a) ==
    LET m == IF a < 0 THEN -a ELSE a
    IN  (IF a < 0 THEN <<45>> ELSE <<>>)
        \o Digits(m \div 2) \o <<46>> \o <<48 + 5 * (m % 2)>>

\* std::format("Arrow keys control the rotation ({:.1f}, {:.1f})", rx, ry)
FormatStatus(rx, ry) ==
    StatusPrefix \o FormatAngle(rx) \o <<44, 32>> \o FormatAngle(ry) \o <<41>>

(* ---------------- font atlas and renderText ---------------- *)

Fonts == 1..NumFonts

\* charData[i] as stbtt_BakeFontBitmap leaves it for font file f: the atlas
\* box in texels, the offsets and the advance in quarter pixels.  The baker
\* is a black box, deterministic in the font file; glyphs differ in size,
\* offset and advance.
BakedChar(f, i) ==
    LET bx == (i % 16) * 32
        by == (i \div 16) * 48
    IN  [x0 |-> bx, y0 |-> by,
         x1 |-> bx + 8 + ((i * f) % 17), y1 |-> by + 20 + ((i + f) % 23),
         xoff |-> (i * f) % 7, yoff |-> -(100 + ((i + f) % 9)),
         xadvance |-> 41 + ((i * (f + 2)) % 13)]

\* line 23, filled at line 164: stbtt_bakedchar charData[96], per font file
charData == [f \in Fonts |-> [i \in 0..(NumChars - 1) |-> BakedChar(f, i)]]

\* stbtt_GetBakedQuad(charData, 512, 512, i, &x, &y, &q, 1): the quad of glyph
\* i at pen (x, y), and the pen after it.  Quad corners are whole pixels
\* (floor(pen + offset + 0.5)); s, t are texels over the atlas size.
GetBakedQuad(f, pw, ph, i, x, y) ==
    LET b == charData[f][i]
        round_x == (x + b.xoff + 2) \div 4
        round_y == (y + b.yoff + 2) \div 4
    IN  [q |-> [x0 |-> round_x, y0 |-> round_y,
                x1 |-> round_x + b.x1 - b.x0, y1 |-> round_y + b.y1 - b.y0,
                s0 |-> <<b.x0, pw>>, t0 |-> <<b.y0, ph>>,
                s1 |-> <<b.x1, pw>>, t1 |-> <<b.y1, ph>>],
         x |-> x + b.xadvance, y |-> y]

\* lines 200-208: the six vertices uploaded for quad q
Vertices(q) ==
    << <<q.x0, q.y0, q.s0, q.t0>>, <<q.x0, q.y1, q.s0, q.t1>>,
       <<q.x1, q.y1, q.s1, q.t1>>, <<q.x0, q.y0, q.s0, q.t0>>,
       <<q.x1, q.y1, q.s1, q.t1>>, <<q.x1, q.y0, q.s1, q.t0>> >>

\* mutant of InBakedRange: the lower test is off by one (the space is dropped)
InBakedRange_Narrow(c) == c > FirstChar /\ c < 128

\* line 196: the test that guards a glyph
InBakedRange(c) == c >= FirstChar /\ c < 128

\* mutant of GlyphStep: the pen is handed to stbtt_GetBakedQuad by value, so
\* the advance is lost
GlyphStep_PenByValue(f, st, c) ==
    IF c >= FirstChar /\ c < 128
    THEN CHOOSE r \in
             { [quads |-> Append(st.quads, g.q), x |-> st.x, y |-> st.y] :
                 g \in {GetBakedQuad(f, AtlasSize, AtlasSize, c - FirstChar,
                                     st.x, st.y)} } : TRUE
    ELSE st

\* lines 196-215: one pass of the loop body for char c with the draws so far
\* and the pen in st
GlyphStep(f, st, c) ==
    IF InBakedRange(c)
    THEN CHOOSE r \in
             { [quads |-> Append(st.quads, g.q), x |-> g.x, y |-> g.y] :
                 g \in {GetBakedQuad(f, AtlasSize, AtlasSize, c - FirstChar,
                                     st.x, st.y)} } : TRUE
    ELSE st

RECURSIVE TextLoop(_, _, _, _, _)
\* lines 195-216: for (char c : text), after the first n chars, left to right
\* (st ranges over a one-element set, so that the state before char n is
\* computed once)
TextLoop(f, text, x, y, n) ==
    IF n = 0 THEN [quads |-> <<>>, x |-> x, y |-> y]
    ELSE CHOOSE r \in { GlyphStep(f, st, text[n]) :
                            st \in {TextLoop(f, text, x, y, n - 1)} } : TRUE

\* renderText(text, x, y, scale) with font f baked: the quads drawn, in
\* order, and the final pen (scale is not used by the code)
renderText(f, text, x, y, scale) == TextLoop(f, text, x, y, Len(text))

(* ---------------- helpers of main ---------------- *)

\* lines 27-29: the viewport the resize callback sets
framebuffer_size_callback(width, height) == <<width, height>>

\* lines 101-147: the program createShaderProgram returns, given the driver's
\* answers to the two GL_COMPILE_STATUS queries and the GL_LINK_STATUS query.
\* Failures are only logged: a program handle is returned in every case.
createShaderProgram(vertexOk, fragmentOk, linkOk) ==
    IF vertexOk /\ fragmentOk /\ linkOk THEN "linked" ELSE "unlinked"

\* the status of the program named p
ProgramStatus(p) ==
    CASE p = "cube" -> cubeShaderProgram
      [] p = "text" -> textShaderProgram
      [] OTHER -> "none"

\* the process status for a value returned from main
ExitStatus(ret) == ret % 256

\* lines 394-401: the handles main deletes, in order
CleanupOrder ==
    <<"VAO", "VBO", "EBO", "cubeShaderProgram",
      "textVAO", "textVBO", "textShaderProgram">>

Strings(S, n) == UNION { [1..k -> S] : k \in 0..n }

Reverse(s) == [i \in 1..Len(s) |-> s[Len(s) + 1 - i]]

Range(s) == { s[i] : i \in 1..Len(s) }

(* ---------------- initial state ---------------- *)

Init ==
    /\ pc = "glfwInit"
    /\ exitCode = -1
    /\ shouldClose = FALSE
    /\ keys = {}
    /\ rotationX = 0 /\ rotationY = 0
    /\ rotationXSpeed = 0 /\ rotationYSpeed = 0
    /\ preX = 0 /\ preY = 0
    /\ frames = 0
    /\ idle = TRUE
    /\ depthTest = FALSE /\ blend = FALSE
    /\ current = "none"
    /\ cubeShaderProgram = "none" /\ textShaderProgram = "none"
    /\ created = <<>> /\ destroyed = <<>>
    /\ fontFace = 0
    /\ fbSize = <<0, 0>> /\ viewport = <<0, 0>> /\ ortho = <<0, 0>>
    /\ txt = <<>>
    /\ argX = 0 /\ argY = 0 /\ penX = 0 /\ penY = 0
    /\ quads = <<>>
    /\ trace = <<>>
    /\ cubeDraw = NoDraw /\ textDraw = NoDraw

(* ---------------- main: initialization (lines 224-256) ---------------- *)

\* mutant of ReturnFailure: the failure path returns 0
ReturnFailure_Zero ==
    /\ pc' = "exited"
    /\ exitCode' = 0

\* return -1 from main
ReturnFailure ==
    /\ pc' = "exited"
    /\ exitCode' = ExitStatus(-1)

\* lines 224-227
GlfwInit ==
    /\ pc = "glfwInit"
    /\ \E ok \in BOOLEAN :
        IF ok THEN pc' = "createWindow" /\ UNCHANGED exitCode
        ELSE ReturnFailure
    /\ UNCHANGED <<shouldClose, keys, rotVars, speedVars, frames, idle, glVars,
                   progVars, resVars, fbSize, textVars, trace, drawVars>>

\* lines 238-245: the WIN_WIDTH x WIN_HEIGHT window, its context (whose
\* viewport starts as the window's size) and the resize callback
CreateWindow ==
    /\ pc = "createWindow"
    /\ \E ok \in BOOLEAN :
        IF ok
        THEN /\ pc' = "gladLoad"
             /\ fbSize' = <<WIN_WIDTH, WIN_HEIGHT>>
             /\ viewport' = <<WIN_WIDTH, WIN_HEIGHT>>
             /\ UNCHANGED exitCode
        ELSE /\ ReturnFailure
             /\ UNCHANGED <<fbSize, viewport>>
    /\ UNCHANGED <<shouldClose, keys, rotVars, speedVars, frames, idle,
                   depthTest, blend, current, ortho,
                   progVars, resVars, textVars, trace, drawVars>>

\* lines 248-256: the GL loader, then depth test and blending are enabled
GladLoad ==
    /\ pc = "gladLoad"
    /\ \E ok \in BOOLEAN :
        IF ok
        THEN /\ pc' = "cubeBuffers"
             /\ depthTest' = TRUE
             /\ blend' = TRUE
             /\ UNCHANGED exitCode
        ELSE /\ ReturnFailure
             /\ UNCHANGED <<depthTest, blend>>
    /\ UNCHANGED <<shouldClose, keys, rotVars, speedVars, frames, idle,
                   current, viewport, ortho, fbSize,
                   progVars, resVars, textVars, trace, drawVars>>

(* ---------------- main: resources (lines 301-337) ---------------- *)

\* lines 301-318
CubeBuffers ==
    /\ pc = "cubeBuffers"
    /\ created' = created \o <<"VAO", "VBO", "EBO">>
    /\ pc' = "cubeProgram"
    /\ UNCHANGED <<exitCode, shouldClose, keys, rotVars, speedVars, frames,
                   idle, glVars, progVars, destroyed, fontFace, fbSize,
                   textVars, trace, drawVars>>

\* line 321
CubeProgram ==
    /\ pc = "cubeProgram"
    /\ \E vertexOk \in BOOLEAN, fragmentOk \in BOOLEAN, linkOk \in BOOLEAN :
        cubeShaderProgram' = createShaderProgram(vertexOk, fragmentOk, linkOk)
    /\ created' = Append(created, "cubeShaderProgram")
    /\ pc' = "textProgram"
    /\ UNCHANGED <<exitCode, shouldClose, keys, rotVars, speedVars, frames,
                   idle, glVars, textShaderProgram, destroyed, fontFace,
                   fbSize, textVars, trace, drawVars>>

\* line 327
TextProgram ==
    /\ pc = "textProgram"
    /\ \E vertexOk \in BOOLEAN, fragmentOk \in BOOLEAN, linkOk \in BOOLEAN :
        textShaderProgram' = createShaderProgram(vertexOk, fragmentOk, linkOk)
    /\ created' = Append(created, "textShaderProgram")
    /\ pc' = "loadFont"
    /\ UNCHANGED <<exitCode, shouldClose, keys, rotVars, speedVars, frames,
                   idle, glVars, cubeShaderProgram, destroyed, fontFace,
                   fbSize, textVars, trace, drawVars>>

\* line 328, loadFont (lines 150-184).  f = 0: arial.ttf cannot be opened;
\* fopen's NULL goes unchecked into fseek, and the process dies there.
LoadFont ==
    /\ pc = "loadFont"
    /\ \E f \in {0} \cup Fonts :
        IF f = 0
        THEN /\ pc' = "crashed"
             /\ UNCHANGED <<created, fontFace>>
        ELSE /\ pc' = "speeds"
             /\ fontFace' = f
             /\ created' = created \o <<"fontTexture", "textVAO", "textVBO">>
    /\ UNCHANGED <<exitCode, shouldClose, keys, rotVars, speedVars, frames,
                   idle, glVars, progVars, destroyed, fbSize,
                   textVars, trace, drawVars>>

\* lines 331-337: the two speeds are drawn once; the angles start at 0
DrawSpeeds ==
    /\ pc = "speeds"
    /\ \E d \in SpeedDraws :
        /\ rotationXSpeed' = d[1]
        /\ rotationYSpeed' = d[2]
    /\ rotationX' = 0 /\ rotationY' = 0
    /\ pc' = "loop"
    /\ UNCHANGED <<exitCode, shouldClose, keys, preX, preY, frames, idle,
                   glVars, progVars, resVars, fbSize, textVars, trace,
                   drawVars>>

(* ---------------- main: the render loop (lines 340-391) ---------------- *)

\* the positions of main inside the loop body
LoopBody == {"input", "advance", "wrap", "clear", "cube", "overlay",
             "text", "swap", "poll"}

InLoop == pc \in LoopBody

\* line 340: while (!glfwWindowShouldClose(window))
LoopTest ==
    /\ pc = "loop"
    /\ IF shouldClose
       THEN pc' = "cleanup" /\ UNCHANGED <<frames, trace>>
       ELSE pc' = "input" /\ frames' = frames + 1 /\ trace' = <<>>
    /\ UNCHANGED <<exitCode, shouldClose, keys, rotVars, speedVars, idle,
                   glVars, progVars, resVars, fbSize, textVars, drawVars>>

\* mutant of ProcessInput: ESCAPE leaves the loop at once instead of setting
\* the close flag for the next loop test
ProcessInput_QuitsAtOnce ==
    /\ pc = "input"
    /\ \E k \in SUBSET Keys :
        /\ keys' = k
        /\ shouldClose' = (shouldClose \/ "ESCAPE" \in k)
        /\ rotationX' = KeyAdjustX(k, rotationX)
        /\ rotationY' = KeyAdjustY(k, rotationY)
        /\ idle' = (idle /\ k \subseteq {"ESCAPE"})
        /\ pc' = IF "ESCAPE" \in k THEN "cleanup" ELSE "advance"
    /\ trace' = Append(trace, "input")
    /\ UNCHANGED <<exitCode, preX, preY, speedVars, frames, glVars, progVars,
                   resVars, fbSize, textVars, drawVars>>

\* line 342, processInput (lines 32-43); k: the keys glfwGetKey reports pressed
ProcessInput ==
    /\ pc = "input"
    /\ \E k \in SUBSET Keys :
        /\ keys' = k
        /\ shouldClose' = (shouldClose \/ "ESCAPE" \in k)
        /\ rotationX' = KeyAdjustX(k, rotationX)
        /\ rotationY' = KeyAdjustY(k, rotationY)
        /\ idle' = (idle /\ k \subseteq {"ESCAPE"})
    /\ trace' = Append(trace, "input")
    /\ pc' = "advance"
    /\ UNCHANGED <<exitCode, preX, preY, speedVars, frames, glVars, progVars,
                   resVars, fbSize, textVars, drawVars>>

\* lines 343-344
AddSpeed ==
    /\ pc = "advance"
    /\ rotationX' = rotationX + rotationXSpeed
    /\ rotationY' = rotationY + rotationYSpeed
    /\ preX' = rotationX'
    /\ preY' = rotationY'
    /\ pc' = "wrap"
    /\ UNCHANGED <<exitCode, shouldClose, keys, speedVars, frames, idle,
                   glVars, progVars, resVars, fbSize, textVars, trace,
                   drawVars>>

\* lines 345-346
Wrap ==
    /\ pc = "wrap"
    /\ rotationX' = WrapAngle(rotationX)
    /\ rotationY' = WrapAngle(rotationY)
    /\ trace' = Append(trace, "advance")
    /\ pc' = "clear"
    /\ UNCHANGED <<exitCode, shouldClose, keys, preX, preY, speedVars, frames,
                   idle, glVars, progVars, resVars, fbSize, textVars,
                   drawVars>>

\* lines 349-351: depth test on, clear colour and depth
Clear ==
    /\ pc = "clear"
    /\ depthTest' = TRUE
    /\ trace' = Append(trace, "clear")
    /\ pc' = "cube"
    /\ UNCHANGED <<exitCode, shouldClose, keys, rotVars, speedVars, frames,
                   idle, blend, current, viewport, ortho, progVars, resVars,
                   fbSize, textVars, drawVars>>

\* lines 353-365: glUseProgram(cubeShaderProgram), mvp, glDrawElements
DrawCube ==
    /\ pc = "cube"
    /\ current' = "cube"
    /\ cubeDraw' = [program |-> "cube", depth |-> depthTest,
                    blend |-> blend, n |-> 36]
    /\ trace' = Append(trace, "cube")
    /\ pc' = "overlay"
    /\ UNCHANGED <<exitCode, shouldClose, keys, rotVars, speedVars, frames,
                   idle, depthTest, blend, viewport, ortho, progVars,
                   resVars, fbSize, textVars, textDraw>>

\* mutant of Overlay: glDisable(GL_DEPTH_TEST) is missing
Overlay_KeepsDepth ==
    /\ pc = "overlay"
    /\ ortho' = fbSize
    /\ current' = "text"
    /\ trace' = Append(trace, "overlay")
    /\ pc' = "text"
    /\ UNCHANGED <<exitCode, shouldClose, keys, rotVars, speedVars, frames,
                   idle, depthTest, blend, viewport, progVars, resVars,
                   fbSize, textVars, drawVars>>

\* lines 368-380: depth test off, framebuffer size queried, orthographic
\* projection uploaded to the text program
Overlay ==
    /\ pc = "overlay"
    /\ depthTest' = FALSE
    /\ ortho' = fbSize
    /\ current' = "text"
    /\ trace' = Append(trace, "overlay")
    /\ pc' = "text"
    /\ UNCHANGED <<exitCode, shouldClose, keys, rotVars, speedVars, frames,
                   idle, blend, viewport, progVars, resVars, fbSize,
                   textVars, drawVars>>

\* lines 384-385: the status string and renderText(txt, 25.0f, 50.0f, 1.0f)
DrawText ==
    /\ pc = "text"
    /\ txt' = FormatStatus(rotationX, rotationY)
    /\ argX' = TextX /\ argY' = TextY
    /\ \E r \in {renderText(fontFace, txt', TextX, TextY, 1)} :
        /\ quads' = r.quads
        /\ penX' = r.x
        /\ penY' = r.y
        /\ textDraw' = [program |-> "text", depth |-> depthTest,
                        blend |-> blend, n |-> Len(r.quads)]
    /\ current' = "text"
    /\ trace' = Append(trace, "text")
    /\ pc' = "swap"
    /\ UNCHANGED <<exitCode, shouldClose, keys, rotVars, speedVars, frames,
                   idle, depthTest, blend, viewport, ortho, progVars,
                   resVars, fbSize, cubeDraw>>

\* line 389: the frame is presented; the back buffer it was drawn into is
\* undefined afterwards
SwapBuffers ==
    /\ pc = "swap"
    /\ quads' = <<>>
    /\ trace' = Append(trace, "present")
    /\ pc' = "poll"
    /\ UNCHANGED <<exitCode, shouldClose, keys, rotVars, speedVars, frames,
                   idle, glVars, progVars, resVars, fbSize, txt, argX, argY,
                   penX, penY, drawVars>>

\* line 390: glfwPollEvents delivers a window-close event (ev) and the
\* framebuffer size sz; a changed size runs framebuffer_size_callback.
\* The user closes the window by frame MaxFrames at the latest.
\* Line 391 ends the loop body, and the lifetime of txt with it.
PollEvents ==
    /\ pc = "poll"
    /\ \E ev \in (IF frames >= MaxFrames THEN {TRUE} ELSE BOOLEAN),
          sz \in FbSizes :
        /\ shouldClose' = (shouldClose \/ ev)
        /\ fbSize' = sz
        /\ viewport' = IF sz # fbSize
                       THEN framebuffer_size_callback(sz[1], sz[2])
                       ELSE viewport
    /\ txt' = <<>>
    /\ trace' = Append(trace, "poll")
    /\ pc' = "loop"
    /\ UNCHANGED <<exitCode, keys, rotVars, speedVars, frames, idle,
                   depthTest, blend, current, ortho, progVars, resVars,
                   argX, argY, penX, penY, quads, drawVars>>

\* lines 394-406: the deletes, the window, return 0
Cleanup ==
    /\ pc = "cleanup"
    /\ destroyed' = destroyed \o CleanupOrder
    /\ pc' = "exited"
    /\ exitCode' = ExitStatus(0)
    /\ UNCHANGED <<shouldClose, keys, rotVars, speedVars, frames, idle,
                   glVars, progVars, created, fontFace, fbSize, textVars,
                   trace, drawVars>>

Next ==
    \/ GlfwInit \/ CreateWindow \/ GladLoad
    \/ CubeBuffers \/ CubeProgram \/ TextProgram \/ LoadFont \/ DrawSpeeds
    \/ LoopTest \/ ProcessInput \/ AddSpeed \/ Wrap \/ Clear \/ DrawCube
    \/ Overlay \/ DrawText \/ SwapBuffers \/ PollEvents
    \/ Cleanup

Spec == Init /\ [][Next]_vars

(***************************************************************************)
(* SpecRot: the rotation state over any number of frames.  The frame cap   *)
(* of Spec keeps the angles far from +-360; here the loop is followed       *)
(* without a cap, one step per iteration, and only what the iteration does *)
(* to the angles and the close flag (lines 340-346, 34 and 390) is         *)
(* observed: the draw calls of lines 349-389 read the angles and write     *)
(* none of them, and the variables they write keep their loop-entry value. *)
(***************************************************************************)

\* the state in which DrawSpeeds leaves main when everything before it
\* succeeded, for the speed draw d
LoopEntry(d) ==
    /\ pc = "loop"
    /\ exitCode = -1
    /\ shouldClose = FALSE
    /\ keys = {}
    /\ rotationX = 0 /\ rotationY = 0
    /\ rotationXSpeed = d[1] /\ rotationYSpeed = d[2]
    /\ preX = 0 /\ preY = 0
    /\ frames = 0
    /\ idle = TRUE
    /\ depthTest = TRUE /\ blend = TRUE
    /\ current = "none"
    /\ cubeShaderProgram = "linked" /\ textShaderProgram = "linked"
    /\ created = Handles /\ destroyed = <<>>
    /\ fontFace = 1
    /\ fbSize = <<WIN_WIDTH, WIN_HEIGHT>>
    /\ viewport = <<WIN_WIDTH, WIN_HEIGHT>>
    /\ ortho = <<0, 0>>
    /\ txt = <<>>
    /\ argX = 0 /\ argY = 0 /\ penX = 0 /\ penY = 0
    /\ quads = <<>>
    /\ trace = <<>>
    /\ cubeDraw = NoDraw /\ textDraw = NoDraw

InitRot == \E d \in RotSpeedDraws : LoopEntry(d)

\* lines 340-346 with the close flag of lines 34 and 390: one iteration, for
\* the keys k reported to processInput and the close event ev polled at its end
RotationFrame ==
    /\ pc = "loop"
    /\ ~shouldClose
    /\ \E k \in SUBSET Keys, ev \in BOOLEAN :
        /\ preX' = KeyAdjustX(k, rotationX) + rotationXSpeed
        /\ preY' = KeyAdjustY(k, rotationY) + rotationYSpeed
        /\ shouldClose' = ("ESCAPE" \in k \/ ev)
    /\ rotationX' = WrapAngle(preX')
    /\ rotationY' = WrapAngle(preY')
    /\ UNCHANGED <<pc, exitCode, keys, speedVars, frames, idle, glVars,
                   progVars, resVars, fbSize, textVars, trace, drawVars>>

NextRot == RotationFrame

SpecRot == InitRot /\ [][NextRot]_vars

(***************************************************************************)
(* SpecText: renderText as a function of its arguments.  The font is       *)
(* loaded and the text program created; the string and the start pen are   *)
(* drawn from TextChars and PenStarts.                                      *)
(***************************************************************************)

InitText ==
    /\ pc = "renderText"
    /\ exitCode = -1
    /\ shouldClose = FALSE
    /\ keys = {}
    /\ rotationX = 0 /\ rotationY = 0
    /\ \E d \in SpeedDraws : rotationXSpeed = d[1] /\ rotationYSpeed = d[2]
    /\ preX = 0 /\ preY = 0
    /\ frames = 0
    /\ idle = TRUE
    /\ depthTest = FALSE /\ blend = TRUE
    /\ current = "text"
    /\ cubeShaderProgram = "linked" /\ textShaderProgram = "linked"
    /\ created = Handles /\ destroyed = <<>>
    /\ fontFace \in Fonts
    /\ fbSize = <<WIN_WIDTH, WIN_HEIGHT>>
    /\ viewport = <<WIN_WIDTH, WIN_HEIGHT>>
    /\ ortho = <<WIN_WIDTH, WIN_HEIGHT>>
    /\ txt \in Strings(TextChars, MaxLen)
    /\ \E p \in PenStarts : argX = p[1] /\ argY = p[2]
    /\ penX = argX /\ penY = argY
    /\ quads = <<>>
    /\ trace = <<>>
    /\ cubeDraw = NoDraw /\ textDraw = NoDraw

\* lines 187-219: renderText(txt, argX, argY, 1.0f)
RenderTextCall ==
    /\ pc = "renderText"
    /\ current' = "text"
    /\ \E r \in {renderText(fontFace, txt, argX, argY, 1)} :
        /\ quads' = r.quads
        /\ penX' = r.x
        /\ penY' = r.y
        /\ textDraw' = [program |-> "text", depth |-> depthTest,
                        blend |-> blend, n |-> Len(r.quads)]
    /\ pc' = "rendered"
    /\ UNCHANGED <<exitCode, shouldClose, keys, rotVars, speedVars, frames,
                   idle, depthTest, blend, viewport, ortho, progVars,
                   resVars, fbSize, txt, argX, argY, trace, cubeDraw>>

NextText == RenderTextCall

SpecText == InitText /\ [][NextText]_vars

(***************************************************************************)
(*                              The claims                                 *)
(***************************************************************************)

OutOfRange(a) == a > WrapLimit \/ a < -WrapLimit

\* C1 as stated: after every rotation update both angles lie in the
\* half-open range -360 < angle <= 360.
C1_AnglesInHalfOpenRange ==
    /\ -WrapLimit < rotationX /\ rotationX <= WrapLimit
    /\ -WrapLimit < rotationY /\ rotationY <= WrapLimit

\* C1 as amended: after every rotation update, for any sequence of frames
\* and keys, both angles lie in the closed range -360 <= angle <= 360.
C1_AnglesInClosedRange ==
    /\ -WrapLimit <= rotationX /\ rotationX <= WrapLimit
    /\ -WrapLimit <= rotationY /\ rotationY <= WrapLimit

\* an update landed on exactly -360 and the wrap check left it there, and
\* (on the other axis) an update that left the range was reset
C1_Witness ==
    \/ preX = -WrapLimit /\ rotationX = -WrapLimit /\ preY > WrapLimit
    \/ preY = -WrapLimit /\ rotationY = -WrapLimit /\ preX > WrapLimit

\* C2: whenever the incremented angle (old angle + key adjustment + speed)
\* is above 360 or below -360 the stored angle is exactly 0, not the value
\* reduced modulo 360; otherwise the incremented value is stored as it is,
\* whatever happens to the other axis.
C2_SnapNotWrap ==
    /\ rotationX = (IF OutOfRange(preX) THEN 0 ELSE preX)
    /\ rotationY = (IF OutOfRange(preY) THEN 0 ELSE preY)

\* 360 + 1 on X was stored as 0 (not as 1) in a frame that left Y alone
C2_Witness ==
    /\ preX = WrapLimit + 2
    /\ rotationX = 0
    /\ preY # 0 /\ ~OutOfRange(preY) /\ rotationY = preY

\* the arrow keys' contribution to each angle, as the claim words it
AdjX(k) == (IF "UP" \in k THEN -KeyStep ELSE 0)
           + (IF "DOWN" \in k THEN KeyStep ELSE 0)
AdjY(k) == (IF "LEFT" \in k THEN -KeyStep ELSE 0)
           + (IF "RIGHT" \in k THEN KeyStep ELSE 0)

\* the key adjustment of a frame, the unconditional speed increment, and the
\* speeds fixed once drawn
C3_Step ==
    /\ pc = "input" =>
        /\ rotationX' = rotationX + AdjX(keys')
        /\ rotationY' = rotationY + AdjY(keys')
    /\ pc = "advance" =>
        /\ rotationX' = rotationX + rotationXSpeed
        /\ rotationY' = rotationY + rotationYSpeed
    /\ pc # "speeds" => UNCHANGED <<rotationXSpeed, rotationYSpeed>>
    /\ pc' = "advance" => pc = "input"
    /\ pc' = "wrap" => pc = "advance"

\* with no arrow key ever held and no wrap, the angles after n frames are
\* n times the speeds
C3_Idle ==
    (/\ idle
     /\ pc \in {"wrap", "clear", "cube", "overlay", "text", "swap", "poll",
                "loop", "cleanup", "exited"}
     /\ frames * rotationXSpeed <= WrapLimit
     /\ frames * rotationYSpeed <= WrapLimit)
    => /\ rotationX = frames * rotationXSpeed
       /\ rotationY = frames * rotationYSpeed

\* C3: in every frame the angle before the wrap is the old angle, -2 if UP
\* is held, +2 if DOWN is held (LEFT, RIGHT for angleY), plus the speed,
\* added unconditionally; the speeds never change once drawn; hence with no
\* key held and no wrap the angle after n frames is n * speed.
C3_KeysThenSpeed == [][C3_Step]_vars /\ []C3_Idle

\* second frame: UP and RIGHT held (this frame, angle = pre-wrap value), and
\* the angles differ from 2 * speed by exactly the key steps of two frames
C3_Witness ==
    /\ pc = "wrap" /\ frames = 2
    /\ keys = {"UP", "RIGHT"}
    /\ rotationXSpeed = 2 /\ rotationYSpeed = 3
    /\ rotationX = 2 * rotationXSpeed - KeyStep
    /\ rotationY = 2 * rotationYSpeed + KeyStep

\* C4 as stated: the program of the latest glUseProgram call compiled and
\* linked; a program whose compile or link failed is never bound, and no
\* draw is issued with it.
C4_BoundOnlyIfLinked ==
    /\ current # "none" => ProgramStatus(current) = "linked"
    /\ cubeDraw # NoDraw => ProgramStatus(cubeDraw.program) = "linked"
    /\ textDraw # NoDraw => ProgramStatus(textDraw.program) = "linked"

\* C5 as stated: every handle is generated once, before the first loop
\* iteration; none is deleted before the loop ends; at normal exit every
\* handle has been deleted once, in the reverse of the creation order.
C5_CreatedOnceDestroyedInReverse ==
    /\ Cardinality(Range(created)) = Len(created)
    /\ Cardinality(Range(destroyed)) = Len(destroyed)
    /\ (pc = "loop" \/ InLoop) => created = Handles /\ destroyed = <<>>
    /\ (pc = "exited" /\ exitCode = 0) =>
        /\ created = Handles
        /\ destroyed = Reverse(created)

\* the steps of one iteration, in the order of the claim
ExpectedTrace ==
    <<"input", "advance", "clear", "cube", "overlay", "text", "present",
      "poll">>

\* how many of them are done when main is at each position of the loop body
StepsDone ==
    [input |-> 0, advance |-> 1, wrap |-> 1, clear |-> 2, cube |-> 3,
     overlay |-> 4, text |-> 5, swap |-> 6, poll |-> 7]

\* C6: every iteration reads input, advances the rotation, clears, draws the
\* cube with the cube program and depth testing on, turns depth testing off
\* and rebuilds the projection from the framebuffer size queried in this
\* frame, formats the post-wrap angles and draws the text with blending on,
\* presents, polls: each once, in this order, to completion before the next
\* iteration starts.
C6_FrameOrder ==
    /\ Len(trace) <= Len(ExpectedTrace)
    /\ trace = SubSeq(ExpectedTrace, 1, Len(trace))
    /\ InLoop => Len(trace) = StepsDone[pc]
    /\ (pc = "loop" /\ frames > 0) => trace = ExpectedTrace
    /\ cubeDraw # NoDraw => cubeDraw.depth /\ cubeDraw.program = "cube"
    /\ textDraw # NoDraw =>
        ~textDraw.depth /\ textDraw.blend /\ textDraw.program = "text"
    /\ pc \in {"text", "swap", "poll"} => ortho = fbSize
    /\ pc = "swap" =>
        /\ txt = FormatStatus(rotationX, rotationY)
        /\ rotationX = (IF OutOfRange(preX) THEN 0 ELSE preX)
        /\ rotationY = (IF OutOfRange(preY) THEN 0 ELSE preY)
        /\ textDraw.n = Len(quads)

\* second frame, after a resize: the text has been drawn with the projection
\* of the new size, depth testing off, after the cube drawn with it on
C6_Witness ==
    /\ pc = "swap" /\ frames = 2
    /\ fbSize = <<450, 350>> /\ ortho = fbSize
    /\ cubeDraw.depth /\ ~textDraw.depth /\ textDraw.blend
    /\ textDraw.n = Len(txt)
    /\ trace = SubSeq(ExpectedTrace, 1, 6)

Running == pc = "loop" \/ InLoop
\* the loop was left: main is cleaning up, or has returned from line 406
Stopped == pc = "cleanup" \/ (pc = "exited" /\ destroyed # <<>>)

C7_Step ==
    /\ (Running /\ ~Running') => (pc = "loop" /\ shouldClose /\ Stopped')
    /\ (pc = "loop" /\ shouldClose) => Stopped'
    /\ (pc = "loop" /\ ~shouldClose) => pc' = "input"
    /\ (InLoop /\ pc # "poll") => (pc' \in LoopBody /\ pc' # "input")
    /\ pc = "poll" => pc' = "loop"
    /\ Stopped =>
        /\ Stopped'
        /\ UNCHANGED <<frames, trace, rotVars, glVars, drawVars, textVars>>
    /\ shouldClose' # shouldClose =>
        /\ shouldClose'
        /\ (pc = "input" /\ "ESCAPE" \in keys') \/ pc = "poll"

\* C7: the loop is RUNNING or STOPPED; it leaves RUNNING only at the loop
\* test and only with the close flag set (by ESCAPE in processInput or by a
\* polled close event); the iteration that sees ESCAPE still runs through
\* present and poll; once STOPPED nothing of an iteration runs again.
C7_RunningStopped ==
    /\ [][C7_Step]_vars
    /\ [](Stopped => (shouldClose /\ (frames > 0 => trace = ExpectedTrace)))

\* the iteration in which ESCAPE was seen has presented its frame
C7_Witness ==
    /\ pc = "poll" /\ frames = 1
    /\ "ESCAPE" \in keys /\ shouldClose
    /\ trace = SubSeq(ExpectedTrace, 1, 7)

\* the chars of text that have a baked glyph, in order
Visible(text) == SelectSeq(text, LAMBDA c : c \in 32..127)

RECURSIVE SumAdvance(_, _)
\* the sum of the baked advances of the glyphs of s (all chars in 32..127)
SumAdvance(f, s) ==
    IF s = <<>> THEN 0
    ELSE BakedChar(f, Head(s) - 32).xadvance + SumAdvance(f, Tail(s))

\* C8: renderText draws one quad per char in [32,128), in string order, and
\* for a char outside it draws nothing and leaves the pen alone (the quads
\* and the final pen are those of the string with these chars removed); so
\* the empty string and a string of out-of-range chars give no quad and no
\* pen movement.
C8_SkipPolicy ==
    pc = "rendered" =>
        LET vis == Visible(txt)
        IN  /\ Len(quads) = Len(vis)
            /\ textDraw.n = Len(vis)
            /\ \A i \in 1..Len(vis) :
                /\ quads[i].s0 = <<BakedChar(fontFace, vis[i] - 32).x0, AtlasSize>>
                /\ quads[i].t0 = <<BakedChar(fontFace, vis[i] - 32).y0, AtlasSize>>
                /\ Len(Vertices(quads[i])) = 6
            /\ \E r \in {renderText(fontFace, vis, argX, argY, 1)} :
                quads = r.quads /\ penX = r.x /\ penY = r.y
            /\ vis = <<>> => (quads = <<>> /\ penX = argX /\ penY = argY)

\* a control char, a space, a byte >= 128: exactly the space is drawn
C8_Witness ==
    /\ pc = "rendered"
    /\ txt = <<31, 32, 128>>
    /\ Len(quads) = 1
    /\ penX = argX + BakedChar(fontFace, 0).xadvance

\* C9: for every split of the string into s and t, the quads of s+t from pen
\* p are the quads of s from p followed by the quads of t from the pen at
\* which s ended; each glyph moves the pen by its baked advance, and its
\* quad is the quad of that glyph at the pen reached so far.
C9_Additive ==
    pc = "rendered" =>
        /\ \A k \in 0..Len(txt) :
            LET a == renderText(fontFace, SubSeq(txt, 1, k), argX, argY, 1)
                b == renderText(fontFace, SubSeq(txt, k + 1, Len(txt)),
                                a.x, a.y, 1)
            IN  quads = a.quads \o b.quads /\ penX = b.x /\ penY = b.y
        /\ LET vis == Visible(txt)
           IN  \A i \in 1..Len(vis) :
                 quads[i] =
                   GetBakedQuad(fontFace, AtlasSize, AtlasSize, vis[i] - 32,
                                argX + SumAdvance(fontFace, SubSeq(vis, 1, i - 1)),
                                argY).q

\* "A 0x7f" laid out: three glyphs, the last one two advances from the start
C9_Witness ==
    /\ pc = "rendered"
    /\ txt = <<65, 32, 127>>
    /\ Len(quads) = 3
    /\ penX = argX + BakedChar(fontFace, 33).xadvance
                   + BakedChar(fontFace, 0).xadvance
                   + BakedChar(fontFace, 95).xadvance
    /\ quads[3].x0 > quads[1].x0

\* lines 254-256 run exactly when the three initialization steps succeeded,
\* and blending is never disabled again
InitSucceeded == blend

\* C10: the exit code is 0 exactly when initialization succeeded and the
\* loop ended by a close request; when glfwInit, the window or the GL loader
\* fails the exit code is nonzero, no GPU resource was created and the loop
\* was never entered.
C10_ExitCode ==
    /\ pc # "exited" => exitCode = -1
    /\ pc = "exited" =>
        /\ exitCode \in 0..255
        /\ (exitCode = 0) <=> (InitSucceeded /\ shouldClose)
        /\ ~InitSucceeded =>
            /\ exitCode # 0
            /\ created = <<>>
            /\ cubeShaderProgram = "none" /\ textShaderProgram = "none"
            /\ frames = 0 /\ trace = <<>>
            /\ cubeDraw = NoDraw /\ textDraw = NoDraw

\* the window was created, the GL loader failed: exit code 255 (-1)
C10_Witness ==
    /\ pc = "exited"
    /\ exitCode = 255
    /\ fbSize = <<WIN_WIDTH, WIN_HEIGHT>>
    /\ ~InitSucceeded

====
